---------------------------- MODULE Spec2Model ----------------------------
(***************************************************************************)
(* The to-do list manager of this repository, in its two variants:         *)
(*                                                                         *)
(*   src/projecttt.cpp      struct ToDoData + free functions (linked list, *)
(*                          unordered_map index, undo stack, tasks.txt)    *)
(*   src/unnamed/part_000   class ToDoList (linked list + hash table)      *)
(*                                                                         *)
(* Representation.  A singly linked list reachable from `head` is the      *)
(* sequence of its nodes in traversal order; a Node is the record of its   *)
(* four data fields and `next` is the successor in the sequence.  A Node*  *)
(* held by taskMap / hashTable is the position (1-based) of the node it    *)
(* points to in that sequence, so unlinking or pushing a node in front     *)
(* renumbers the pointers to the nodes behind it; Dangling is a pointer to *)
(* a node that is no longer in the list.  The nodes of deletedStack are    *)
(* owned by the stack alone and are kept as records, top = last element.   *)
(* A std::string is the sequence of its characters, so that find, substr   *)
(* and stoi are computed as the library computes them.                     *)
(***************************************************************************)
EXTENDS Integers, Sequences, FiniteSets, TLC

VARIABLES
    program,   \* which of the two programs of the repository is running, or
               \* "both": the same calls are made on a ToDoData and a ToDoList
    pc,        \* position of main: "start", "menu", "exited", "crashed"
    file,      \* tasks.txt: whether it exists, and the sequence of its lines
    data,      \* projecttt.cpp: the ToDoData of main
    todo,      \* part_000: the ToDoList of main
    last,      \* history: the last call made, its arguments and outcome
    issued     \* history: the ids issued by addTask so far, in order

vars == <<program, pc, file, data, todo, last, issued>>

-----------------------------------------------------------------------------
(* Bounds of the model *)

MaxId == 2        \* addTask is explored while nextId / taskCounter <= MaxId

-----------------------------------------------------------------------------
(* std::string, as a sequence of characters *)

npos == -1        \* string::npos; npos + 1 = 0 as in size_t arithmetic
INT_MAX == 2147483647

Dangling == 0

MinOf(S) == CHOOSE x \in S : \A y \in S : x <= y
max(a, b) == IF a < b THEN b ELSE a

\* s.find(ch, from): least 0-based position >= from holding ch, else npos
find(s, ch, from) ==
    LET hits == {i \in from..(Len(s) - 1) : s[i + 1] = ch}
    IN IF hits = {} THEN npos ELSE MinOf(hits)

\* s.substr(pos, n): at most n characters from 0-based position pos
substr(s, pos, n) ==
    SubSeq(s, pos + 1, IF pos + n < Len(s) THEN pos + n ELSE Len(s))

\* s.substr(pos): from pos to the end
substrFrom(s, pos) == SubSeq(s, pos + 1, Len(s))

DigitVal(c) ==
    CASE c = "0" -> 0 [] c = "1" -> 1 [] c = "2" -> 2 [] c = "3" -> 3
      [] c = "4" -> 4 [] c = "5" -> 5 [] c = "6" -> 6 [] c = "7" -> 7
      [] c = "8" -> 8 [] c = "9" -> 9

IsDigit(c) == c \in {"0", "1", "2", "3", "4", "5", "6", "7", "8", "9"}
IsSpace(c) == c \in {" ", "\t"}

Throws == [ok |-> FALSE, val |-> 0]

\* the digits of s from 1-based position i on, accumulated into v; throws
\* std::out_of_range when the value leaves the range of int
RECURSIVE StoiDigits(_, _, _, _)
StoiDigits(s, i, v, neg) ==
    IF i > Len(s) \/ ~IsDigit(s[i])
    THEN [ok |-> TRUE, val |-> IF neg THEN 0 - v ELSE v]
    ELSE LET d == DigitVal(s[i])
         IN IF v <= (INT_MAX - d) \div 10
            THEN StoiDigits(s, i + 1, v * 10 + d, neg)
            ELSE IF neg /\ v = 214748364 /\ d = 8
                    /\ (i = Len(s) \/ ~IsDigit(s[i + 1]))
                 THEN [ok |-> TRUE, val |-> (0 - INT_MAX) - 1]
                 ELSE Throws

RECURSIVE SkipSpace(_, _)
SkipSpace(s, i) ==
    IF i <= Len(s) /\ IsSpace(s[i]) THEN SkipSpace(s, i + 1) ELSE i

\* std::stoi(s): leading white space, an optional sign, then digits up to the
\* first other character; throws std::invalid_argument when there is no digit
stoi(s) ==
    LET start == SkipSpace(s, 1)
        signed == start <= Len(s) /\ s[start] \in {"+", "-"}
        neg == signed /\ s[start] = "-"
        first == IF signed THEN start + 1 ELSE start
    IN IF first > Len(s) \/ ~IsDigit(s[first])
       THEN Throws
       ELSE StoiDigits(s, first, 0, neg)

DigitChar(d) ==
    CASE d = 0 -> "0" [] d = 1 -> "1" [] d = 2 -> "2" [] d = 3 -> "3"
      [] d = 4 -> "4" [] d = 5 -> "5" [] d = 6 -> "6" [] d = 7 -> "7"
      [] d = 8 -> "8" [] d = 9 -> "9"

RECURSIVE Digits(_)
Digits(n) ==
    IF n < 10 THEN <<DigitChar(n)>>
    ELSE Digits(n \div 10) \o <<DigitChar(n % 10)>>

\* ostream << int: the decimal digits, after a minus sign when negative
IntText(n) == IF n < 0 THEN <<"-">> \o Digits(0 - n) ELSE Digits(n)

-----------------------------------------------------------------------------
(* struct Node *)

Node(id, description, priority, completed) ==
    [id |-> id, description |-> description, priority |-> priority,
     completed |-> completed]

\* unordered_map: m[k] = v
MapPut(m, k, v) == [x \in (DOMAIN m) \cup {k} |-> IF x = k THEN v ELSE m[x]]

\* unordered_map: m.erase(k)
MapErase(m, k) == [x \in (DOMAIN m) \ {k} |-> m[x]]

EmptyMap == [x \in {} |-> 0]

\* the list without the node at position k
Unlink(list, k) == SubSeq(list, 1, k - 1) \o SubSeq(list, k + 1, Len(list))

\* the pointers after the node at position k was unlinked
AfterUnlink(m, k) ==
    [x \in DOMAIN m |->
        IF m[x] = Dangling \/ m[x] = k THEN Dangling
        ELSE IF m[x] > k THEN m[x] - 1 ELSE m[x]]

\* the pointers after a node was linked in front of the list
AfterPushFront(m) ==
    [x \in DOMAIN m |-> IF m[x] = Dangling THEN Dangling ELSE m[x] + 1]

-----------------------------------------------------------------------------
(* projecttt.cpp: struct ToDoData and the functions on it *)

\* ToDoData(): head(nullptr), nextId(1), totalTasks(0), empty map and stack
ToDoData ==
    [head |-> <<>>, taskMap |-> EmptyMap, deletedStack |-> <<>>,
     nextId |-> 1, totalTasks |-> 0]

\* addTask linking the new node in front of the list instead of behind it
addTask_atFront(d, desc, priority) ==
    IF desc = <<>> THEN d
    ELSE LET pr == IF priority < 1 \/ priority > 5 THEN 1 ELSE priority
             newNode == Node(d.nextId, desc, pr, FALSE)
         IN [d EXCEPT !.head = <<newNode>> \o d.head,
                      !.taskMap = MapPut(AfterPushFront(d.taskMap), d.nextId, 1),
                      !.nextId = d.nextId + 1,
                      !.totalTasks = d.totalTasks + 1]

\* addTask without the check for an empty description
addTask_acceptsEmpty(d, desc, priority) ==
    LET pr == IF priority < 1 \/ priority > 5 THEN 1 ELSE priority
        newNode == Node(d.nextId, desc, pr, FALSE)
    IN [d EXCEPT !.head = Append(d.head, newNode),
                 !.taskMap = MapPut(d.taskMap, d.nextId, Len(d.head) + 1),
                 !.nextId = d.nextId + 1,
                 !.totalTasks = d.totalTasks + 1]

\* addTask clamping a priority above 5 to 5 instead of setting it to 1
addTask_clampsToNearest(d, desc, priority) ==
    IF desc = <<>> THEN d
    ELSE LET pr == IF priority < 1 THEN 1 ELSE IF priority > 5 THEN 5 ELSE priority
             newNode == Node(d.nextId, desc, pr, FALSE)
         IN [d EXCEPT !.head = Append(d.head, newNode),
                      !.taskMap = MapPut(d.taskMap, d.nextId, Len(d.head) + 1),
                      !.nextId = d.nextId + 1,
                      !.totalTasks = d.totalTasks + 1]

\* addTask(data, desc, priority)
addTask(d, desc, priority) ==
    IF desc = <<>> THEN d
    ELSE LET pr == IF priority < 1 \/ priority > 5 THEN 1 ELSE priority
             newNode == Node(d.nextId, desc, pr, FALSE)
         IN [d EXCEPT !.head = Append(d.head, newNode),
                      !.taskMap = MapPut(d.taskMap, d.nextId, Len(d.head) + 1),
                      !.nextId = d.nextId + 1,
                      !.totalTasks = d.totalTasks + 1]

\* editTask looking the id up with taskMap[id] instead of find: an absent id
\* gets an entry holding a null pointer
editTask_indexesMap(d, id, newDesc, newPrio) ==
    IF id \notin DOMAIN d.taskMap
    THEN [d EXCEPT !.taskMap = MapPut(d.taskMap, id, Dangling)]
    ELSE LET t == d.taskMap[id]
             desc == IF newDesc # <<>> THEN newDesc ELSE d.head[t].description
             prio == IF newPrio.ok /\ newPrio.val >= 1 /\ newPrio.val <= 5
                     THEN newPrio.val ELSE d.head[t].priority
         IN [d EXCEPT !.head[t].description = desc, !.head[t].priority = prio]

\* editTask treating a new priority outside 1..5 as addTask does: it becomes 1
editTask_clampsTo1(d, id, newDesc, newPrio) ==
    IF id \notin DOMAIN d.taskMap THEN d
    ELSE LET t == d.taskMap[id]
             desc == IF newDesc # <<>> THEN newDesc ELSE d.head[t].description
             prio == IF ~newPrio.ok \/ newPrio.val = 0 THEN d.head[t].priority
                     ELSE IF newPrio.val >= 1 /\ newPrio.val <= 5 THEN newPrio.val
                     ELSE 1
         IN [d EXCEPT !.head[t].description = desc, !.head[t].priority = prio]

\* editTask(data, id), with the two inputs it reads from cin: the line newDesc
\* and newPrio = [ok, val], ok = FALSE when `cin >> newPrio` fails
editTask(d, id, newDesc, newPrio) ==
    IF id \notin DOMAIN d.taskMap THEN d
    ELSE LET t == d.taskMap[id]
             desc == IF newDesc # <<>> THEN newDesc ELSE d.head[t].description
             prio == IF newPrio.ok /\ newPrio.val >= 1 /\ newPrio.val <= 5
                     THEN newPrio.val ELSE d.head[t].priority
         IN [d EXCEPT !.head[t].description = desc, !.head[t].priority = prio]

\* deleteTask: the position of the first node of the list carrying id (the
\* loop of lines 129-134), 0 when the loop runs off the end
FirstWithId(list, id) ==
    LET hits == {i \in 1..Len(list) : list[i].id = id}
    IN IF hits = {} THEN 0 ELSE MinOf(hits)

\* deleteTask without taskMap.erase(id): the entry is left pointing at the
\* node that was freed
deleteTask_keepsIndexEntry(d, id) ==
    IF id \notin DOMAIN d.taskMap THEN d
    ELSE LET cur == FirstWithId(d.head, id)
         IN IF cur = 0 THEN d
            ELSE LET copyNode == Node(d.head[cur].id, d.head[cur].description,
                                      d.head[cur].priority, d.head[cur].completed)
                 IN [d EXCEPT !.head = Unlink(d.head, cur),
                              !.deletedStack = Append(d.deletedStack, copyNode),
                              !.taskMap = AfterUnlink(d.taskMap, cur),
                              !.totalTasks = d.totalTasks - 1]

\* deleteTask pushing a copy that is built like a new task: not completed
deleteTask_copyNotCompleted(d, id) ==
    IF id \notin DOMAIN d.taskMap THEN d
    ELSE LET cur == FirstWithId(d.head, id)
         IN IF cur = 0 THEN d
            ELSE LET copyNode == Node(d.head[cur].id, d.head[cur].description,
                                      d.head[cur].priority, FALSE)
                 IN [d EXCEPT !.head = Unlink(d.head, cur),
                              !.deletedStack = Append(d.deletedStack, copyNode),
                              !.taskMap = MapErase(AfterUnlink(d.taskMap, cur), id),
                              !.totalTasks = d.totalTasks - 1]

\* deleteTask(data, id)
deleteTask(d, id) ==
    IF id \notin DOMAIN d.taskMap THEN d
    ELSE LET cur == FirstWithId(d.head, id)
         IN IF cur = 0 THEN d
            ELSE LET copyNode == Node(d.head[cur].id, d.head[cur].description,
                                      d.head[cur].priority, d.head[cur].completed)
                 IN [d EXCEPT !.head = Unlink(d.head, cur),
                              !.deletedStack = Append(d.deletedStack, copyNode),
                              !.taskMap = MapErase(AfterUnlink(d.taskMap, cur), id),
                              !.totalTasks = d.totalTasks - 1]

\* undoDelete setting nextId to restored->id + 1 without the max
undoDelete_resetsNextId(d) ==
    IF d.deletedStack = <<>> THEN d
    ELSE LET restored == d.deletedStack[Len(d.deletedStack)]
         IN [d EXCEPT !.deletedStack = SubSeq(d.deletedStack, 1, Len(d.deletedStack) - 1),
                      !.head = <<restored>> \o d.head,
                      !.taskMap = MapPut(AfterPushFront(d.taskMap), restored.id, 1),
                      !.totalTasks = d.totalTasks + 1,
                      !.nextId = restored.id + 1]

\* undoDelete linking the restored node behind the list instead of in front
undoDelete_atEnd(d) ==
    IF d.deletedStack = <<>> THEN d
    ELSE LET restored == d.deletedStack[Len(d.deletedStack)]
         IN [d EXCEPT !.deletedStack = SubSeq(d.deletedStack, 1, Len(d.deletedStack) - 1),
                      !.head = Append(d.head, restored),
                      !.taskMap = MapPut(d.taskMap, restored.id, Len(d.head) + 1),
                      !.totalTasks = d.totalTasks + 1,
                      !.nextId = max(d.nextId, restored.id + 1)]

\* undoDelete on a queue instead of a stack: the oldest entry is restored
undoDelete_oldestFirst(d) ==
    IF d.deletedStack = <<>> THEN d
    ELSE LET restored == d.deletedStack[1]
         IN [d EXCEPT !.deletedStack = SubSeq(d.deletedStack, 2, Len(d.deletedStack)),
                      !.head = <<restored>> \o d.head,
                      !.taskMap = MapPut(AfterPushFront(d.taskMap), restored.id, 1),
                      !.totalTasks = d.totalTasks + 1,
                      !.nextId = max(d.nextId, restored.id + 1)]

\* undoDelete without the check for an empty history: the live count is
\* raised although there is nothing to restore
undoDelete_countsEmpty(d) ==
    IF d.deletedStack = <<>> THEN [d EXCEPT !.totalTasks = d.totalTasks + 1]
    ELSE LET restored == d.deletedStack[Len(d.deletedStack)]
         IN [d EXCEPT !.deletedStack = SubSeq(d.deletedStack, 1, Len(d.deletedStack) - 1),
                      !.head = <<restored>> \o d.head,
                      !.taskMap = MapPut(AfterPushFront(d.taskMap), restored.id, 1),
                      !.totalTasks = d.totalTasks + 1,
                      !.nextId = max(d.nextId, restored.id + 1)]

\* undoDelete without deletedStack.pop(): the restored entry stays on top
undoDelete_keepsEntry(d) ==
    IF d.deletedStack = <<>> THEN d
    ELSE LET restored == d.deletedStack[Len(d.deletedStack)]
         IN [d EXCEPT !.head = <<restored>> \o d.head,
                      !.taskMap = MapPut(AfterPushFront(d.taskMap), restored.id, 1),
                      !.totalTasks = d.totalTasks + 1,
                      !.nextId = max(d.nextId, restored.id + 1)]

\* undoDelete(data)
undoDelete(d) ==
    IF d.deletedStack = <<>> THEN d
    ELSE LET restored == d.deletedStack[Len(d.deletedStack)]
         IN [d EXCEPT !.deletedStack = SubSeq(d.deletedStack, 1, Len(d.deletedStack) - 1),
                      !.head = <<restored>> \o d.head,
                      !.taskMap = MapPut(AfterPushFront(d.taskMap), restored.id, 1),
                      !.totalTasks = d.totalTasks + 1,
                      !.nextId = max(d.nextId, restored.id + 1)]

NotFound == [found |-> FALSE]

\* searchTask(data, id): what it prints, the node the index holds for id
searchTask(d, id) ==
    IF id \notin DOMAIN d.taskMap THEN NotFound
    ELSE LET t == d.head[d.taskMap[id]]
         IN [found |-> TRUE, id |-> t.id, description |-> t.description,
             priority |-> t.priority, completed |-> t.completed]

\* markComplete flipping the flag instead of assigning done
markComplete_toggles(d, id, done) ==
    IF id \notin DOMAIN d.taskMap THEN d
    ELSE [d EXCEPT !.head[d.taskMap[id]].completed = ~d.head[d.taskMap[id]].completed]

\* markComplete(data, id, done)
markComplete(d, id, done) ==
    IF id \notin DOMAIN d.taskMap THEN d
    ELSE [d EXCEPT !.head[d.taskMap[id]].completed = done]

\* the getline loop without the update of nextId
LoadLine_keepsNextId(d, line) ==
    LET p1 == find(line, "|", 0)
        p2 == find(line, "|", p1 + 1)
        p3 == find(line, "|", p2 + 1)
    IN IF line = <<>> THEN [data |-> d, threw |-> FALSE]
       ELSE IF p1 = npos \/ p2 = npos \/ p3 = npos THEN [data |-> d, threw |-> FALSE]
       ELSE LET id == stoi(substr(line, 0, p1))
                desc == substr(line, p1 + 1, p2 - p1 - 1)
                prio == stoi(substr(line, p2 + 1, p3 - p2 - 1))
                done == stoi(substrFrom(line, p3 + 1))
            IN IF ~id.ok \/ ~prio.ok \/ ~done.ok THEN [data |-> d, threw |-> TRUE]
               ELSE [data |-> [d EXCEPT
                        !.head = Append(d.head, Node(id.val, desc, prio.val, done.val # 0)),
                        !.taskMap = MapPut(d.taskMap, id.val, Len(d.head) + 1),
                        !.totalTasks = d.totalTasks + 1],
                     threw |-> FALSE]

\* loadFromFile: one pass of the getline loop over `line`; the result is the
\* store and whether std::stoi threw (nothing catches it: the process ends)
LoadLine(d, line) ==
    LET p1 == find(line, "|", 0)
        p2 == find(line, "|", p1 + 1)
        p3 == find(line, "|", p2 + 1)
    IN IF line = <<>> THEN [data |-> d, threw |-> FALSE]
       ELSE IF p1 = npos \/ p2 = npos \/ p3 = npos THEN [data |-> d, threw |-> FALSE]
       ELSE LET id == stoi(substr(line, 0, p1))
                desc == substr(line, p1 + 1, p2 - p1 - 1)
                prio == stoi(substr(line, p2 + 1, p3 - p2 - 1))
                done == stoi(substrFrom(line, p3 + 1))
            IN IF ~id.ok \/ ~prio.ok \/ ~done.ok THEN [data |-> d, threw |-> TRUE]
               ELSE [data |-> [d EXCEPT
                        !.head = Append(d.head, Node(id.val, desc, prio.val, done.val # 0)),
                        !.taskMap = MapPut(d.taskMap, id.val, Len(d.head) + 1),
                        !.nextId = max(d.nextId, id.val + 1),
                        !.totalTasks = d.totalTasks + 1],
                     threw |-> FALSE]

NoFile == [exists |-> FALSE, lines |-> <<>>]
TextFile(lines) == [exists |-> TRUE, lines |-> lines]

\* saveToFile: the description with every '|' replaced by a blank
Sanitized(desc) == [i \in 1..Len(desc) |-> IF desc[i] = "|" THEN " " ELSE desc[i]]

\* saveToFile writing 0 in the last field whatever the completed flag
saveToFile_dropsCompleted(d) ==
    TextFile([i \in 1..Len(d.head) |->
                 IntText(d.head[i].id) \o <<"|">> \o Sanitized(d.head[i].description)
                 \o <<"|">> \o IntText(d.head[i].priority) \o <<"|">> \o <<"0">>])

\* saveToFile(data, "tasks.txt"), the file opened: tasks.txt afterwards, one
\* line id|description|priority|completed per node in list order
saveToFile(d) ==
    TextFile([i \in 1..Len(d.head) |->
                 IntText(d.head[i].id) \o <<"|">> \o Sanitized(d.head[i].description)
                 \o <<"|">> \o IntText(d.head[i].priority) \o <<"|">>
                 \o <<IF d.head[i].completed THEN "1" ELSE "0">>])

\* freeAll(data)
freeAll(d) ==
    [d EXCEPT !.head = <<>>, !.taskMap = EmptyMap, !.deletedStack = <<>>,
              !.totalTasks = 0]

RECURSIVE LoadLines(_, _, _)
LoadLines(d, lines, i) ==
    IF i > Len(lines) THEN [data |-> d, threw |-> FALSE]
    ELSE LET r == LoadLine(d, lines[i])
         IN IF r.threw THEN r ELSE LoadLines(r.data, lines, i + 1)

\* loadFromFile(data, "tasks.txt")
loadFromFile(d, f) ==
    IF ~f.exists THEN [data |-> d, threw |-> FALSE]
    ELSE LoadLines(d, f.lines, 1)

-----------------------------------------------------------------------------
(* part_000: class ToDoList *)

\* ToDoList(): head = nullptr, taskCounter = 1, size = 0
ToDoList ==
    [head |-> <<>>, hashTable |-> EmptyMap, taskCounter |-> 1, size |-> 0]

\* ToDoList::addTask taking the id from taskCounter++ before the check of the
\* description: a rejected call uses an id up
ToDoList_addTask_countsRejected(t, description, priority) ==
    IF description = <<>> THEN [t EXCEPT !.taskCounter = t.taskCounter + 1]
    ELSE LET prio == IF priority < 1 \/ priority > 5 THEN 1 ELSE priority
             taskId == t.taskCounter
             newNode == Node(taskId, description, prio, FALSE)
         IN [t EXCEPT !.hashTable = MapPut(t.hashTable, taskId, Len(t.head) + 1),
                      !.head = Append(t.head, newNode),
                      !.taskCounter = t.taskCounter + 1,
                      !.size = t.size + 1]

\* ToDoList::addTask(description, priority)
ToDoList_addTask(t, description, priority) ==
    IF description = <<>> THEN t
    ELSE LET prio == IF priority < 1 \/ priority > 5 THEN 1 ELSE priority
             taskId == t.taskCounter
             newNode == Node(taskId, description, prio, FALSE)
         IN [t EXCEPT !.hashTable = MapPut(t.hashTable, taskId, Len(t.head) + 1),
                      !.head = Append(t.head, newNode),
                      !.taskCounter = t.taskCounter + 1,
                      !.size = t.size + 1]

\* ToDoList::deleteTask: the node unlinked by lines 99-113, 0 when the walk
\* over current->next reaches the end without meeting taskId
ToDoList_unlinked(list, taskId) ==
    IF list[1].id = taskId THEN 1
    ELSE LET hits == {i \in 2..Len(list) : list[i].id = taskId}
         IN IF hits = {} THEN 0 ELSE MinOf(hits)

\* ToDoList::deleteTask without size--
ToDoList_deleteTask_keepsSize(t, taskId) ==
    IF taskId \notin DOMAIN t.hashTable THEN t
    ELSE LET k == ToDoList_unlinked(t.head, taskId)
             list == IF k = 0 THEN t.head ELSE Unlink(t.head, k)
             ptrs == IF k = 0 THEN t.hashTable ELSE AfterUnlink(t.hashTable, k)
         IN [t EXCEPT !.head = list,
                      !.hashTable = MapErase(ptrs, taskId)]

\* ToDoList::deleteTask(taskId)
ToDoList_deleteTask(t, taskId) ==
    IF taskId \notin DOMAIN t.hashTable THEN t
    ELSE LET k == ToDoList_unlinked(t.head, taskId)
             list == IF k = 0 THEN t.head ELSE Unlink(t.head, k)
             ptrs == IF k = 0 THEN t.hashTable ELSE AfterUnlink(t.hashTable, k)
         IN [t EXCEPT !.head = list,
                      !.hashTable = MapErase(ptrs, taskId),
                      !.size = t.size - 1]

\* ToDoList::markComplete(taskId)
ToDoList_markComplete(t, taskId) ==
    IF taskId \in DOMAIN t.hashTable
    THEN IF t.head[t.hashTable[taskId]].completed THEN t
         ELSE [t EXCEPT !.head[t.hashTable[taskId]].completed = TRUE]
    ELSE t

\* ToDoList::markIncomplete(taskId)
ToDoList_markIncomplete(t, taskId) ==
    IF taskId \in DOMAIN t.hashTable
    THEN IF ~t.head[t.hashTable[taskId]].completed THEN t
         ELSE [t EXCEPT !.head[t.hashTable[taskId]].completed = FALSE]
    ELSE t

\* ToDoList::searchTask(taskId): what it prints
ToDoList_searchTask(t, taskId) ==
    IF taskId \in DOMAIN t.hashTable
    THEN LET node == t.head[t.hashTable[taskId]]
         IN [found |-> TRUE, id |-> node.id, description |-> node.description,
             priority |-> node.priority, completed |-> node.completed]
    ELSE NotFound

\* the line a display function prints for a node: the mark ("✓" is TRUE, "○"
\* is FALSE), the id, the description and the priority
Shown(mark, node) == Node(node.id, node.description, node.priority, mark)

\* ToDoList::displayAll(): the lines printed, one per node from head on
RECURSIVE ToDoList_displayAll(_, _)
ToDoList_displayAll(t, current) ==
    IF current > Len(t.head) THEN <<>>
    ELSE <<Shown(t.head[current].completed, t.head[current])>>
         \o ToDoList_displayAll(t, current + 1)

\* displayPending without the test of the completed flag
RECURSIVE ToDoList_displayPending_unfiltered(_, _)
ToDoList_displayPending_unfiltered(t, current) ==
    IF current > Len(t.head) THEN <<>>
    ELSE <<Shown(FALSE, t.head[current])>>
         \o ToDoList_displayPending_unfiltered(t, current + 1)

\* ToDoList::displayPending(): the lines printed; count is their number
RECURSIVE ToDoList_displayPending(_, _)
ToDoList_displayPending(t, current) ==
    IF current > Len(t.head) THEN <<>>
    ELSE (IF ~t.head[current].completed
          THEN <<Shown(FALSE, t.head[current])>> ELSE <<>>)
         \o ToDoList_displayPending(t, current + 1)

\* ToDoList::displayCompleted(): the lines printed; count is their number
RECURSIVE ToDoList_displayCompleted(_, _)
ToDoList_displayCompleted(t, current) ==
    IF current > Len(t.head) THEN <<>>
    ELSE (IF t.head[current].completed
          THEN <<Shown(TRUE, t.head[current])>> ELSE <<>>)
         \o ToDoList_displayCompleted(t, current + 1)

\* what getStatistics prints nothing of when size is 0
NoStatistics ==
    [shown |-> FALSE, total |-> 0, completed |-> 0, pending |-> 0,
     completionRate |-> 0]

\* ToDoList::getStatistics(): the four numbers it prints. completionRate is
\* completed * 100.0 / size printed with fixed << setprecision(1), kept here
\* in tenths of a percent (333 is the text "33.3"): the decimal with one
\* place that is nearest to the quotient
ToDoList_getStatistics(t) ==
    IF t.size = 0 THEN NoStatistics
    ELSE LET completed == Cardinality({i \in 1..Len(t.head) : t.head[i].completed})
             pending == t.size - completed
             completionRate == (2000 * completed + t.size) \div (2 * t.size)
         IN [shown |-> TRUE, total |-> t.size, completed |-> completed,
             pending |-> pending, completionRate |-> completionRate]

-----------------------------------------------------------------------------
(* Inputs *)

Descriptions == {<<>>, <<"a">>, <<"b">>}
Priorities == {-1, 0, 1, 5, 6}

\* what `cin >> newPrio` leaves in editTask: no integer, or the integer val
NonInt == [ok |-> FALSE, val |-> 0]
IntInput(n) == [ok |-> TRUE, val |-> n]

\* the two inputs of editTask: the new description and the new priority
EditInputs ==
    { <<<<>>, NonInt>>, <<<<>>, IntInput(0)>>, <<<<>>, IntInput(1)>>, <<<<>>, IntInput(5)>>,
      <<<<"a">>, IntInput(6)>>, <<<<"b">>, IntInput(0)>>, <<<<"b">>, IntInput(1)>> }

\* the description and priority of the tasks added in SpecUndo
UndoInputs == { <<<<"a">>, 1>>, <<<<"b">>, 5>> }
IdInputs == 1..(MaxId + 1)

\* tasks.txt as the program may find it: absent; as saveToFile wrote it (one
\* line, two lines); with an id repeated; with an empty description and a
\* priority outside 1..5; with an empty line and a line of fewer than three
\* delimiters; with a field that is no integer
Files ==
    { NoFile,
      TextFile(<< <<"2", "|", "a", "|", "5", "|", "1">> >>),
      TextFile(<< <<"3", "|", "a", "|", "1", "|", "0">>,
                  <<"4", "|", "b", "|", "5", "|", "1">> >>),
      TextFile(<< <<"3", "|", "a", "|", "1", "|", "0">>,
                  <<"3", "|", "b", "|", "5", "|", "1">> >>),
      TextFile(<< <<"3", "|", "|", "9", "|", "0">> >>),
      TextFile(<< <<>>,
                  <<"x", "|", "a">>,
                  <<"3", "|", "a", "|", "1", "|", "0">> >>),
      TextFile(<< <<"3", "|", "a", "|", "1", "|", "0">>,
                  <<"a", "|", "b", "|", "c", "|", "d">> >>) }

-----------------------------------------------------------------------------
(* The two programs *)

\* the record of a call: its name, whether it took effect, one argument (the
\* priority of the task addTask added, the id deleteTask removed, for undoDelete
\* whether the call before it was a deleteTask that took effect, the new
\* priority editTask read, 1 for markComplete with done = true) and, for a
\* deleteTask that took effect and for saveToFile, the store it was called on
Call(op, ok, arg, before) == [op |-> op, ok |-> ok, arg |-> arg, before |-> before]

NoCall == Call("none", FALSE, 0, ToDoData)

Init ==
    /\ program \in {"projecttt", "part_000"}
    /\ pc = IF program = "projecttt" THEN "start" ELSE "menu"
    /\ file \in IF program = "projecttt" THEN Files ELSE {NoFile}
    /\ data = ToDoData
    /\ todo = ToDoList
    /\ last = NoCall
    /\ issued = <<>>

\* projecttt.cpp main, line 333: loadFromFile(data, "tasks.txt")
MainLoad ==
    /\ program = "projecttt" /\ pc = "start"
    /\ LET r == loadFromFile(data, file)
       IN /\ data' = r.data
          /\ pc' = IF r.threw THEN "crashed" ELSE "menu"
          /\ last' = Call("loadFromFile", ~r.threw, 0, ToDoData)
    /\ UNCHANGED <<program, file, todo, issued>>

InMenu == program = "projecttt" /\ pc = "menu"

\* choice 1; explored while nextId <= maxId
MainAdd(desc, p, maxId) ==
    /\ InMenu
    /\ desc = <<>> \/ data.nextId <= maxId
    /\ data' = addTask(data, desc, p)
    /\ last' = Call("addTask", desc # <<>>, IF desc # <<>> THEN p ELSE 0, ToDoData)
    /\ issued' = IF data'.head # data.head
                 THEN Append(issued, data'.head[Len(data'.head)].id) ELSE issued
    /\ UNCHANGED <<program, pc, file, todo>>

\* choice 2
MainEdit(id, newDesc, newPrio) ==
    /\ InMenu
    /\ data' = editTask(data, id, newDesc, newPrio)
    /\ last' = Call("editTask", id \in DOMAIN data.taskMap,
                    IF id \in DOMAIN data.taskMap /\ newPrio.ok THEN newPrio.val ELSE 0,
                    ToDoData)
    /\ UNCHANGED <<program, pc, file, todo, issued>>

\* choice 3
MainDelete(id) ==
    /\ InMenu
    /\ data' = deleteTask(data, id)
    /\ last' = IF id \in DOMAIN data.taskMap
               THEN Call("deleteTask", TRUE, id, data)
               ELSE Call("deleteTask", FALSE, 0, ToDoData)
    /\ UNCHANGED <<program, pc, file, todo, issued>>

\* choice 4
MainUndo ==
    /\ InMenu
    /\ data' = undoDelete(data)
    /\ last' = Call("undoDelete", data.deletedStack # <<>>,
                    IF last.op = "deleteTask" /\ last.ok THEN 1 ELSE 0, ToDoData)
    /\ UNCHANGED <<program, pc, file, todo, issued>>

\* choices 5 and 6
MainMark(id, done) ==
    /\ InMenu
    /\ data' = markComplete(data, id, done)
    /\ last' = Call("markComplete", id \in DOMAIN data.taskMap,
                    IF id \in DOMAIN data.taskMap /\ done THEN 1 ELSE 0, ToDoData)
    /\ UNCHANGED <<program, pc, file, todo, issued>>

\* choice 7
MainSearch(id) ==
    /\ InMenu
    /\ last' = Call("searchTask", searchTask(data, id).found, 0, ToDoData)
    /\ UNCHANGED <<program, pc, file, data, todo, issued>>

\* choice 9: saveToFile, then the loop is left and freeAll runs before main
\* returns
MainSave ==
    /\ InMenu
    /\ file' = saveToFile(data)
    /\ data' = freeAll(data)
    /\ pc' = "exited"
    /\ last' = Call("saveToFile", TRUE, 0, data)
    /\ UNCHANGED <<program, todo, issued>>

\* the program is run again: a new ToDoData, tasks.txt as the last run left
\* it; explored while no more than MaxId ids were issued
MainRestart ==
    /\ program = "projecttt" /\ pc = "exited"
    /\ Len(issued) <= MaxId
    /\ pc' = "start"
    /\ data' = ToDoData
    /\ last' = Call("main", TRUE, 0, ToDoData)
    /\ UNCHANGED <<program, file, todo, issued>>

InList == program = "part_000"

\* part_000 main, case 1; explored while taskCounter <= MaxId
ListAdd(description, priority) ==
    /\ InList
    /\ description = <<>> \/ todo.taskCounter <= MaxId
    /\ todo' = ToDoList_addTask(todo, description, priority)
    /\ last' = Call("ToDoList::addTask", description # <<>>,
                    IF description # <<>> THEN priority ELSE 0, ToDoData)
    /\ issued' = IF todo'.head # todo.head
                 THEN Append(issued, todo'.head[Len(todo'.head)].id) ELSE issued
    /\ UNCHANGED <<program, pc, file, data>>

\* case 2
ListDelete(taskId) ==
    /\ InList
    /\ todo' = ToDoList_deleteTask(todo, taskId)
    /\ last' = Call("ToDoList::deleteTask", taskId \in DOMAIN todo.hashTable, 0, ToDoData)
    /\ UNCHANGED <<program, pc, file, data, issued>>

\* case 3
ListMarkComplete(taskId) ==
    /\ InList
    /\ todo' = ToDoList_markComplete(todo, taskId)
    /\ last' = Call("ToDoList::markComplete", taskId \in DOMAIN todo.hashTable, 0, ToDoData)
    /\ UNCHANGED <<program, pc, file, data, issued>>

\* case 4
ListMarkIncomplete(taskId) ==
    /\ InList
    /\ todo' = ToDoList_markIncomplete(todo, taskId)
    /\ last' = Call("ToDoList::markIncomplete", taskId \in DOMAIN todo.hashTable, 0, ToDoData)
    /\ UNCHANGED <<program, pc, file, data, issued>>

\* case 9
ListStatistics ==
    /\ InList
    /\ last' = Call("ToDoList::getStatistics", ToDoList_getStatistics(todo).shown,
                    0, ToDoData)
    /\ UNCHANGED <<program, pc, file, data, todo, issued>>

\* case 6
ListDisplayAll ==
    /\ InList
    /\ last' = Call("ToDoList::displayAll", todo.head # <<>>, 0, ToDoData)
    /\ UNCHANGED <<program, pc, file, data, todo, issued>>

\* case 7
ListDisplayPending ==
    /\ InList
    /\ last' = Call("ToDoList::displayPending",
                    ToDoList_displayPending(todo, 1) # <<>>, 0, ToDoData)
    /\ UNCHANGED <<program, pc, file, data, todo, issued>>

\* case 8
ListDisplayCompleted ==
    /\ InList
    /\ last' = Call("ToDoList::displayCompleted",
                    ToDoList_displayCompleted(todo, 1) # <<>>, 0, ToDoData)
    /\ UNCHANGED <<program, pc, file, data, todo, issued>>

Next ==
    \/ MainLoad
    \/ \E desc \in Descriptions, p \in Priorities : MainAdd(desc, p, MaxId)
    \/ \E id \in IdInputs, e \in EditInputs : MainEdit(id, e[1], e[2])
    \/ \E id \in IdInputs : MainDelete(id)
    \/ MainUndo
    \/ \E id \in IdInputs, done \in BOOLEAN : MainMark(id, done)
    \/ \E id \in IdInputs : MainSearch(id)
    \/ MainSave
    \/ \E description \in Descriptions, priority \in Priorities :
          ListAdd(description, priority)
    \/ \E taskId \in IdInputs : ListDelete(taskId)
    \/ \E taskId \in IdInputs : ListMarkComplete(taskId)
    \/ \E taskId \in IdInputs : ListMarkIncomplete(taskId)
    \/ ListDisplayAll
    \/ ListDisplayPending
    \/ ListDisplayCompleted
    \/ ListStatistics

\* The two variants side by side: each call is made on the ToDoData and on
\* the ToDoList, both empty at first (no tasks.txt is loaded)
InBoth == program = "both"

\* addTask(data, desc, p) and todo.addTask(desc, p); explored while the next
\* id of either is <= MaxId
BothAdd(desc, p) ==
    /\ InBoth
    /\ desc = <<>> \/ (data.nextId <= MaxId /\ todo.taskCounter <= MaxId)
    /\ data' = addTask(data, desc, p)
    /\ todo' = ToDoList_addTask(todo, desc, p)
    /\ last' = Call("add", desc # <<>>, IF desc # <<>> THEN p ELSE 0, ToDoData)
    /\ UNCHANGED <<program, pc, file, issued>>

\* deleteTask(data, id) and todo.deleteTask(id)
BothDelete(id) ==
    /\ InBoth
    /\ data' = deleteTask(data, id)
    /\ todo' = ToDoList_deleteTask(todo, id)
    /\ last' = Call("delete", id \in DOMAIN data.taskMap, 0, ToDoData)
    /\ UNCHANGED <<program, pc, file, issued>>

\* markComplete(data, id, true) and todo.markComplete(id)
BothMarkComplete(id) ==
    /\ InBoth
    /\ data' = markComplete(data, id, TRUE)
    /\ todo' = ToDoList_markComplete(todo, id)
    /\ last' = Call("mark-complete", id \in DOMAIN data.taskMap, 0, ToDoData)
    /\ UNCHANGED <<program, pc, file, issued>>

\* markComplete(data, id, false) and todo.markIncomplete(id)
BothMarkIncomplete(id) ==
    /\ InBoth
    /\ data' = markComplete(data, id, FALSE)
    /\ todo' = ToDoList_markIncomplete(todo, id)
    /\ last' = Call("mark-incomplete", id \in DOMAIN data.taskMap, 0, ToDoData)
    /\ UNCHANGED <<program, pc, file, issued>>

InitBoth ==
    /\ program = "both" /\ pc = "menu" /\ file = NoFile
    /\ data = ToDoData /\ todo = ToDoList
    /\ last = NoCall /\ issued = <<>>

NextBoth ==
    \/ \E desc \in Descriptions, p \in Priorities : BothAdd(desc, p)
    \/ \E id \in IdInputs : BothDelete(id)
    \/ \E id \in IdInputs : BothMarkComplete(id)
    \/ \E id \in IdInputs : BothMarkIncomplete(id)

SpecBoth == InitBoth /\ [][NextBoth]_vars

\* either program, started on any of the files
Spec == Init /\ [][Next]_vars

\* either program, projecttt.cpp started with no tasks.txt: the store is empty
\* after the load
InitEmpty == Init /\ file = NoFile

SpecEmpty == InitEmpty /\ [][Next]_vars

\* projecttt.cpp started with no tasks.txt, one task further than Spec:
\* tasks are added (description "a" with priority 1, "b" with 5), deleted,
\* restored and marked complete
DeepId == MaxId + 1

InitUndo == InitEmpty /\ program = "projecttt"

NextUndo ==
    \/ MainLoad
    \/ \E a \in UndoInputs : MainAdd(a[1], a[2], DeepId)
    \/ \E id \in 1..DeepId : MainDelete(id)
    \/ MainUndo
    \/ \E id \in 1..DeepId : MainMark(id, TRUE)

SpecUndo == InitUndo /\ [][NextUndo]_vars

\* projecttt.cpp up to "Save & Exit": started on any of the files or on a file
\* with a negative id and a priority of two digits; tasks are added (one
\* description holds a '|'), deleted, restored, marked complete, and saved
SaveFiles ==
    Files \cup { TextFile(<< <<"-", "1", "|", "a", "|", "1", "2", "|", "1">> >>) }

SaveInputs == { <<<<"a">>, 5>>, <<<<"a", "|", "b">>, 1>> }

InitSave ==
    /\ program = "projecttt" /\ pc = "start"
    /\ file \in SaveFiles
    /\ data = ToDoData /\ todo = ToDoList
    /\ last = NoCall /\ issued = <<>>

NextSave ==
    \/ MainLoad
    \/ \E a \in SaveInputs : MainAdd(a[1], a[2], MaxId)
    \/ \E id \in IdInputs : MainDelete(id)
    \/ MainUndo
    \/ \E id \in IdInputs : MainMark(id, TRUE)
    \/ MainSave

SpecSave == InitSave /\ [][NextSave]_vars

\* projecttt.cpp run again and again, the first time with no tasks.txt: tasks
\* are added, deleted and restored, saved at exit and loaded by the next run
NextRestart ==
    \/ MainLoad
    \/ \E a \in UndoInputs : MainAdd(a[1], a[2], MaxId)
    \/ \E id \in IdInputs : MainDelete(id)
    \/ MainUndo
    \/ MainSave
    \/ MainRestart

SpecRestart == InitUndo /\ [][NextRestart]_vars

-----------------------------------------------------------------------------
(* Properties *)

\* what searchTask prints for the node t
Found(t) ==
    [found |-> TRUE, id |-> t.id, description |-> t.description,
     priority |-> t.priority, completed |-> t.completed]

\* the index holds exactly the ids of the list, each entry pointing at a node
\* of the list that carries its key
IndexAgrees(list, index) ==
    /\ DOMAIN index = {list[i].id : i \in 1..Len(list)}
    /\ \A k \in DOMAIN index : index[k] \in 1..Len(list) /\ list[index[k]].id = k

\* C1: started from the empty store, after any calls of addTask, editTask,
\* deleteTask, undoDelete and markComplete the ids of the nodes of the list are
\* the keys of the index (taskMap, hashTable), and each entry of the index
\* points at the node of the list that carries its key.
C1_ListAndIndexAgree ==
    /\ IndexAgrees(data.head, data.taskMap)
    /\ IndexAgrees(todo.head, todo.hashTable)

\* the second of two tasks was deleted and restored in front of the first
C1_Witness ==
    /\ last.op = "undoDelete" /\ last.ok
    /\ Len(data.head) = 2 /\ data.head[1].id = 2 /\ data.head[2].id = 1
    /\ data.taskMap[2] = 1 /\ data.taskMap[1] = 2

\* C2: in every reachable state, also after loadFromFile of any file whose
\* lines have three delimiters and integer fields, no two tasks of the list
\* carry the same id.
C2_IdsInjective ==
    \A i, j \in 1..Len(data.head) : i # j => data.head[i].id # data.head[j].id

\* C3: in every reachable state nextId is greater than the id of every task
\* of the list and of every task of the undo history; undoDelete leaves nextId
\* at max(nextId, restored.id + 1), and after loadFromFile nextId is greater
\* than every loaded id.
C3_NextIdAbove ==
    /\ \A i \in 1..Len(data.head) : data.head[i].id < data.nextId
    /\ \A i \in 1..Len(data.deletedStack) : data.deletedStack[i].id < data.nextId

C4_IssuedIncreasing ==
    \A i, j \in 1..Len(issued) : i < j => issued[i] < issued[j]

C4_IdsNeverReused ==
    /\ []C4_IssuedIncreasing
    /\ [][(last.op = "deleteTask" /\ last.ok /\ issued' # issued) =>
             issued'[Len(issued')] > last.arg]_vars

\* the third task was added after a task was deleted and restored
C4_Witness ==
    /\ last.op = "addTask" /\ last.ok /\ Len(issued) = 3
    /\ Len(data.head) = 3 /\ data.head[1].id = 2 /\ data.head[2].id = 1
    /\ data.head[3].id = 3

\* what addTask(desc, p) does to the store d, giving d2, when it adds
AddEffect(d, desc, p, d2) ==
    LET new == Node(d.nextId, desc, p, FALSE)
    IN /\ d2.head = Append(d.head, new)
       /\ searchTask(d2, d.nextId) = Found(new)
       /\ \A k \in DOMAIN d.taskMap : searchTask(d2, k) = searchTask(d, k)
       /\ d2.nextId = d.nextId + 1
       /\ d2.totalTasks = d.totalTasks + 1
       /\ d2.deletedStack = d.deletedStack

ListAddEffect(t, desc, p, t2) ==
    LET new == Node(t.taskCounter, desc, p, FALSE)
    IN /\ t2.head = Append(t.head, new)
       /\ ToDoList_searchTask(t2, t.taskCounter) = Found(new)
       /\ \A k \in DOMAIN t.hashTable :
             ToDoList_searchTask(t2, k) = ToDoList_searchTask(t, k)
       /\ t2.taskCounter = t.taskCounter + 1
       /\ t2.size = t.size + 1

\* C5: addTask(d, p) with d not empty and p in 1..5 creates the task
\* (nextId, d, p, not completed) as the last element of the list, searchTask
\* finds it with these fields, nextId and the live count grow by one, and
\* every other task and the undo history are unchanged.
C5_AddAppends ==
    [][\A desc \in Descriptions \ {<<>>}, p \in Priorities \cap (1..5) :
          /\ MainAdd(desc, p, MaxId) => AddEffect(data, desc, p, data')
          /\ ListAdd(desc, p) => ListAddEffect(todo, desc, p, todo')]_vars

\* a task of priority 5 was added behind another one
C5_Witness ==
    /\ last.op = "addTask" /\ last.ok /\ last.arg = 5
    /\ Len(data.head) = 2 /\ data.head[2].id = 2 /\ data.head[2].priority = 5

\* C6: addTask with an empty description, whatever the priority, changes
\* nothing: list, index, undo history, live count and nextId stay as they
\* were, and no id is issued.
C6_EmptyDescriptionRejected ==
    [][\A p \in Priorities :
          /\ MainAdd(<<>>, p, MaxId) => data' = data /\ issued' = issued
          /\ ListAdd(<<>>, p) => todo' = todo /\ issued' = issued]_vars

\* addTask with an empty description was called on a store that holds a task
C6_Witness ==
    /\ last.op = "addTask" /\ ~last.ok /\ Len(data.head) = 1 /\ data.nextId = 2

\* C7: addTask with a description and a priority outside 1..5 adds the task
\* with priority 1.
C7_PriorityDefaultsTo1 ==
    [][\A desc \in Descriptions \ {<<>>}, p \in Priorities \ (1..5) :
          /\ MainAdd(desc, p, MaxId) => AddEffect(data, desc, 1, data')
          /\ ListAdd(desc, p) => ListAddEffect(todo, desc, 1, todo')]_vars

\* a task was added with priority 6 given
C7_Witness ==
    /\ last.op = "addTask" /\ last.ok /\ last.arg = 6
    /\ data.head[Len(data.head)].priority = 1

\* C8: deleteTask(id) on the id of a task of the list unlinks that task and
\* no other, leaving the others in their order with their fields, erases id
\* from the index, takes one off the live count, leaves nextId alone and
\* pushes a copy with the task's id, description, priority and completed flag
\* on top of the undo history.
C8_DeleteDetaches ==
    [][\A id \in 1..DeepId :
          (MainDelete(id) /\ id \in DOMAIN data.taskMap) =>
             LET k == data.taskMap[id]
             IN /\ data.head[k].id = id
                /\ data'.head = Unlink(data.head, k)
                /\ DOMAIN data'.taskMap = DOMAIN data.taskMap \ {id}
                /\ \A j \in DOMAIN data'.taskMap :
                      searchTask(data', j) = searchTask(data, j)
                /\ data'.totalTasks = data.totalTasks - 1
                /\ data'.nextId = data.nextId
                /\ data'.deletedStack = Append(data.deletedStack, data.head[k])]_vars

\* the completed task in the middle of three was deleted
C8_Witness ==
    /\ last.op = "deleteTask" /\ last.ok
    /\ Len(last.before.head) = 3 /\ last.before.head[2].id = last.arg
    /\ last.before.head[2].completed
    /\ Len(data.head) = 2

\* C9: deleteTask(id) followed at once by undoDelete restores the task with
\* its id, description, priority and completed flag; the live count is the one
\* before the deleteTask; the restored task is the first of the list and the
\* others keep their order.
C9_DeleteThenUndo ==
    [][(last.op = "deleteTask" /\ last.ok /\ MainUndo) =>
          LET b == last.before
              k == b.taskMap[last.arg]
          IN /\ data'.head = <<b.head[k]>> \o Unlink(b.head, k)
             /\ searchTask(data', last.arg) = Found(b.head[k])
             /\ data'.totalTasks = b.totalTasks]_vars

\* the completed task in the middle of three was deleted and restored at once
C9_Witness ==
    /\ last.op = "undoDelete" /\ last.ok /\ last.arg = 1
    /\ Len(data.head) = 3 /\ data.head[1].id = 2 /\ data.head[1].completed
    /\ data.head[2].id = 1 /\ data.head[3].id = 3

\* C10: the undo history is a stack: undoDelete restores the entry pushed
\* last among those still in it and takes it off, so after deleting d1, ..., dk
\* the undoDelete calls restore dk, ..., d1; deleteTask only pushes; no other
\* call changes the history, until "Save & Exit" ends the program and freeAll
\* gives the whole store back.
C10_UndoIsLifo ==
    [][LET s == data.deletedStack
           s2 == data'.deletedStack
       IN /\ (last'.op = "undoDelete" /\ last'.ok) =>
                /\ s2 = SubSeq(s, 1, Len(s) - 1)
                /\ data'.head[1] = s[Len(s)]
          /\ (last'.op = "undoDelete" /\ ~last'.ok) => s2 = s
          /\ (last'.op = "deleteTask" /\ last'.ok) =>
                /\ Len(s2) = Len(s) + 1
                /\ SubSeq(s2, 1, Len(s)) = s
                /\ s2[Len(s2)].id = last'.arg
          /\ (last'.op = "deleteTask" /\ ~last'.ok) => s2 = s
          /\ last'.op \notin {"undoDelete", "deleteTask", "saveToFile"} => s2 = s]_vars

\* tasks 1 and 2 were deleted in this order, and the second of two undoDelete
\* calls has just restored task 1
C10_Witness ==
    /\ last.op = "undoDelete" /\ last.ok /\ last.arg = 0
    /\ ~file.exists /\ data.deletedStack = <<>>
    /\ Len(data.head) = 2 /\ data.head[1].id = 1 /\ data.head[2].id = 2

\* C11: undoDelete called when the undo history is empty fails and changes
\* nothing: the list, the index, the live count and nextId are as before.
C11_UndoOnEmptyHistory ==
    [][(MainUndo /\ data.deletedStack = <<>>) => (data' = data /\ ~last'.ok)]_vars

\* undoDelete was called on a store of two tasks whose history is empty
C11_Witness ==
    /\ last.op = "undoDelete" /\ ~last.ok
    /\ Len(data.head) = 2 /\ data.deletedStack = <<>>

\* C12: editTask, deleteTask, markComplete / markIncomplete and searchTask
\* called with an id that the index does not hold report not-found and leave
\* the store as it was: list, index, undo history, live count and nextId.
C12_AbsentIdChangesNothing ==
    [][\A id \in IdInputs :
          /\ (id \notin DOMAIN data.taskMap) =>
                /\ \A e \in EditInputs :
                      MainEdit(id, e[1], e[2]) => (data' = data /\ ~last'.ok)
                /\ MainDelete(id) => (data' = data /\ ~last'.ok)
                /\ \A done \in BOOLEAN :
                      MainMark(id, done) => (data' = data /\ ~last'.ok)
                /\ MainSearch(id) =>
                      (data' = data /\ ~last'.ok /\ searchTask(data, id) = NotFound)
          /\ (id \notin DOMAIN todo.hashTable) =>
                /\ ListDelete(id) => (todo' = todo /\ ~last'.ok)
                /\ ListMarkComplete(id) => (todo' = todo /\ ~last'.ok)
                /\ ListMarkIncomplete(id) => (todo' = todo /\ ~last'.ok)
                /\ ToDoList_searchTask(todo, id) = NotFound]_vars

\* editTask was called with an id the index does not hold, on a store that
\* holds one task and one entry in the undo history
C12_Witness ==
    /\ last.op = "editTask" /\ ~last.ok
    /\ Len(data.head) = 1 /\ Len(data.deletedStack) = 1
    /\ data.deletedStack[1].id \notin DOMAIN data.taskMap

\* C13: editTask on an id of the index changes the description and the
\* priority independently of each other: an empty new description keeps the
\* old one and any other replaces it; a new priority in 1..5 replaces the
\* priority; 0, a value outside 1..5 or no integer leaves the priority as it
\* was (it is not set to 1) and the new description stays. Nothing else of
\* the store changes.
C13_EditFieldsIndependent ==
    [][\A id \in IdInputs, e \in EditInputs :
          (MainEdit(id, e[1], e[2]) /\ id \in DOMAIN data.taskMap) =>
             LET k == data.taskMap[id]
                 old == data.head[k]
                 desc == IF e[1] = <<>> THEN old.description ELSE e[1]
                 prio == IF e[2].ok /\ e[2].val \in 1..5 THEN e[2].val
                         ELSE old.priority
             IN data' = [data EXCEPT
                           !.head[k] = Node(old.id, desc, prio, old.completed)]]_vars

\* the task loaded as (3, "", 9, not completed) was edited with the new
\* description "a" and the new priority 6: it has the new description and the
\* priority it had
C13_Witness ==
    /\ last.op = "editTask" /\ last.ok /\ last.arg = 6
    /\ Len(file.lines) = 1 /\ Len(data.head) = 1
    /\ data.head[1] = Node(3, <<"a">>, 9, FALSE)

\* C14: markComplete(id, done) on an id of the index sets completed = done
\* whatever it was, and nothing else: the task's other fields and position,
\* the other tasks, the live count, nextId and the undo history stay; a second
\* call with the same arguments leaves the store of the first. The same holds
\* for ToDoList::markComplete (done = true) and ToDoList::markIncomplete
\* (done = false).
C14_MarkSetsAndIsIdempotent ==
    [][\A id \in IdInputs :
          /\ \A done \in BOOLEAN :
                (MainMark(id, done) /\ id \in DOMAIN data.taskMap) =>
                   /\ data' = [data EXCEPT !.head[data.taskMap[id]].completed = done]
                   /\ markComplete(data', id, done) = data'
          /\ (ListMarkComplete(id) /\ id \in DOMAIN todo.hashTable) =>
                /\ todo' = [todo EXCEPT !.head[todo.hashTable[id]].completed = TRUE]
                /\ ToDoList_markComplete(todo', id) = todo'
          /\ (ListMarkIncomplete(id) /\ id \in DOMAIN todo.hashTable) =>
                /\ todo' = [todo EXCEPT !.head[todo.hashTable[id]].completed = FALSE]
                /\ ToDoList_markIncomplete(todo', id) = todo']_vars

\* the task loaded as completed was marked incomplete
C14_Witness ==
    /\ last.op = "markComplete" /\ last.ok /\ last.arg = 0
    /\ Len(file.lines) = 1 /\ data.head = <<Node(2, <<"a">>, 5, FALSE)>>

\* the number of completed tasks of a list
Completed(list) == Cardinality({i \in 1..Len(list) : list[i].completed})

\* C15: in every reachable state the live count (totalTasks, size) is the
\* number of nodes of the list, and getStatistics reports total = that number,
\* completed = the number of tasks with completed = true, pending = total -
\* completed and, when total > 0, completionRate = 100 * completed / total
\* (to the one decimal place it prints).
C15_CountAndStatistics ==
    /\ data.totalTasks = Len(data.head)
    /\ todo.size = Len(todo.head)
    /\ LET st == ToDoList_getStatistics(todo)
           n == Len(todo.head)
           c == Completed(todo.head)
           err == st.completionRate * n - 1000 * c
       IN n > 0 =>
             /\ st.shown /\ st.total = n /\ st.completed = c /\ st.pending = n - c
             /\ 2 * err <= n /\ 2 * (0 - err) <= n

\* statistics were asked for on two tasks of which one is completed: total 2,
\* completed 1, pending 1, completion rate 50.0 %
C15_Witness ==
    /\ last.op = "ToDoList::getStatistics" /\ last.ok
    /\ todo.size = 2 /\ todo.taskCounter = 3
    /\ ToDoList_getStatistics(todo) =
          [shown |-> TRUE, total |-> 2, completed |-> 1, pending |-> 1,
           completionRate |-> 500]

\* C16: in every reachable state, also after loadFromFile and undoDelete,
\* every task of the list has a priority in 1..5.
C16_PriorityInRange ==
    /\ \A i \in 1..Len(data.head) : data.head[i].priority \in 1..5
    /\ \A i \in 1..Len(todo.head) : todo.head[i].priority \in 1..5

\* C17: in every reachable state, also after editTask and loadFromFile, every
\* task of the list has a description that is not empty.
C17_DescriptionNotEmpty ==
    /\ \A i \in 1..Len(data.head) : data.head[i].description # <<>>
    /\ \A i \in 1..Len(todo.head) : todo.head[i].description # <<>>

\* no description of the list holds the delimiter
NoDelimiter(list) ==
    \A i \in 1..Len(list) :
       \A j \in 1..Len(list[i].description) : list[i].description[j] # "|"

\* C18: for every reachable store whose descriptions hold no '|', saveToFile
\* followed by loadFromFile into a fresh store gives a list with the same
\* (id, description, priority, completed) in the same order; the file has one
\* line per task and the task loaded from line i is the i-th of the list.
C18_SaveLoadRoundTrip ==
    [][(MainSave /\ NoDelimiter(data.head)) =>
          LET r == loadFromFile(ToDoData, file')
          IN /\ file'.exists /\ Len(file'.lines) = Len(data.head)
             /\ ~r.threw
             /\ r.data.head = data.head
             /\ \A i \in 1..Len(data.head) :
                   LoadLine(ToDoData, file'.lines[i]).data.head = <<data.head[i]>>]_vars

\* a store of two tasks, the completed one in front, was saved
C18_Witness ==
    /\ pc = "exited" /\ last.op = "saveToFile"
    /\ Len(last.before.head) = 2 /\ NoDelimiter(last.before.head)
    /\ last.before.head[1].completed /\ ~last.before.head[2].completed
    /\ last.before.head[1].id > last.before.head[2].id
    /\ loadFromFile(ToDoData, file).data.head = last.before.head

\* a line with at least three delimiters
WellFormed(line) == Cardinality({i \in 1..Len(line) : line[i] = "|"}) >= 3

\* C19: loadFromFile passes over every empty line and every line with fewer
\* than three '|' without changing the store and loads every other line of
\* the file: the store is the one the well-formed lines alone give; and the
\* load never ends the process abnormally.
C19_LoadSkipsMalformed ==
    [][MainLoad =>
          /\ data' = loadFromFile(data, TextFile(SelectSeq(file.lines, WellFormed))).data
          /\ pc' = "menu"]_vars

\* the task with this id is in none of the live structures: the index does
\* not hold the id, so that searchTask, editTask, markComplete and deleteTask
\* report not-found and change nothing, and no node of the list carries it
Absent(d, id) ==
    /\ id \notin DOMAIN d.taskMap
    /\ searchTask(d, id) = NotFound
    /\ \A e \in EditInputs : editTask(d, id, e[1], e[2]) = d
    /\ \A done \in BOOLEAN : markComplete(d, id, done) = d
    /\ deleteTask(d, id) = d
    /\ \A k \in 1..Len(d.head) : d.head[k].id # id

\* C20: from the deleteTask that took it off the list until the undoDelete
\* that pops its entry, that is as long as its copy is in the undo history, a
\* task is absent from the live structures: searchTask, editTask,
\* markComplete and a second deleteTask on its id report not-found and the
\* list does not show it; and editTask and markComplete on the tasks of the
\* list never change the copies in the undo history.
C20_InHistory ==
    \A i \in 1..Len(data.deletedStack) : Absent(data, data.deletedStack[i].id)

C20_DeletedIsAbsent ==
    /\ []C20_InHistory
    /\ [][last'.op \in {"editTask", "markComplete"} =>
             data'.deletedStack = data.deletedStack]_vars

\* the positions of the list whose completed flag is `flag`, in list order
RECURSIVE Positions(_, _, _)
Positions(list, flag, i) ==
    IF i > Len(list) THEN <<>>
    ELSE (IF list[i].completed = flag THEN <<i>> ELSE <<>>)
         \o Positions(list, flag, i + 1)

\* C21: displayPending prints exactly the tasks with completed = false and
\* displayCompleted exactly those with completed = true, each in the order
\* displayAll prints them, so the two lists split the full list and their
\* counts add up to the live count; none of displayAll, displayPending and
\* displayCompleted changes the store, so each call shows the current state.
C21_Displayed ==
    LET all == ToDoList_displayAll(todo, 1)
        pending == ToDoList_displayPending(todo, 1)
        completed == ToDoList_displayCompleted(todo, 1)
        pp == Positions(todo.head, FALSE, 1)
        cp == Positions(todo.head, TRUE, 1)
    IN /\ Len(all) = Len(todo.head)
       /\ \A i \in 1..Len(all) : all[i] = todo.head[i]
       /\ pending = [k \in 1..Len(pp) |-> all[pp[k]]]
       /\ completed = [k \in 1..Len(cp) |-> all[cp[k]]]
       /\ Len(pending) + Len(completed) = todo.size

C21_DisplaysPartition ==
    /\ []C21_Displayed
    /\ [][(ListDisplayAll \/ ListDisplayPending \/ ListDisplayCompleted) =>
             todo' = todo]_vars

\* the pending tasks were displayed for a list whose first task is completed
\* and whose second is pending
C21_Witness ==
    /\ last.op = "ToDoList::displayPending" /\ last.ok
    /\ Len(todo.head) = 2 /\ todo.head[1].completed /\ ~todo.head[2].completed
    /\ ToDoList_displayPending(todo, 1) = <<todo.head[2]>>
    /\ ToDoList_displayCompleted(todo, 1) = <<todo.head[1]>>

\* how many elements of the sequence of nodes carry id
Carrying(nodes, id) == Cardinality({i \in 1..Len(nodes) : nodes[i].id = id})

\* C22: started without tasks.txt, in every state that addTask, editTask,
\* deleteTask, undoDelete and markComplete reach, each id of 1..nextId-1 is the
\* id of exactly one task of the list or of exactly one entry of the undo
\* history, never of both and never of two, and there is no other id; hence
\* nextId - 1 = totalTasks + the size of the undo history. (After
\* "Save & Exit" the store is given back and holds nothing.)
C22_IdConservation ==
    pc \in {"start", "menu"} =>
       /\ \A id \in 1..(data.nextId - 1) :
             Carrying(data.head, id) + Carrying(data.deletedStack, id) = 1
       /\ \A i \in 1..Len(data.head) : data.head[i].id \in 1..(data.nextId - 1)
       /\ \A i \in 1..Len(data.deletedStack) :
             data.deletedStack[i].id \in 1..(data.nextId - 1)
       /\ data.nextId - 1 = data.totalTasks + Len(data.deletedStack)

\* of the two ids issued, 1 is in the undo history and 2 in the list, after
\* the first of the two tasks was deleted
C22_Witness ==
    /\ last.op = "deleteTask" /\ last.ok /\ last.arg = 1
    /\ Len(last.before.head) = 2 /\ last.before.head[1].id = 1
    /\ last.before.head[2].id = 2 /\ last.before.taskMap[2] = 2
    /\ data.nextId = 3 /\ Len(data.head) = 1 /\ data.head[1].id = 2
    /\ Len(data.deletedStack) = 1 /\ data.deletedStack[1].id = 1

\* C23: ids stay unique across saveToFile and loadFromFile into a fresh
\* store: every id addTask issues, in the run that loaded the file too, is
\* greater than every id issued before, the ids of tasks deleted before the
\* save included.
C23_IdsUniqueAcrossRuns ==
    [][issued' # issued =>
          \A i \in 1..Len(issued) : issued[i] < issued'[Len(issued')]]_vars

\* C24: after every sequence of add, delete, mark-complete and mark-incomplete
\* calls made on an empty ToDoList and on an empty ToDoData, the two hold the
\* same sequence of (id, description, priority, completed), the same live
\* count and the same next id.
C24_VariantsAgree ==
    /\ Len(data.head) = Len(todo.head)
    /\ \A i \in 1..Len(data.head) :
          /\ data.head[i].id = todo.head[i].id
          /\ data.head[i].description = todo.head[i].description
          /\ data.head[i].priority = todo.head[i].priority
          /\ data.head[i].completed = todo.head[i].completed
    /\ data.totalTasks = todo.size
    /\ data.nextId = todo.taskCounter

\* the first of two tasks was deleted from both; the second, marked complete,
\* is what each of them holds
C24_Witness ==
    /\ program = "both" /\ last.op = "delete" /\ last.ok
    /\ Len(todo.head) = 1 /\ todo.head[1] = Node(2, <<"b">>, 1, TRUE)
    /\ data.head = todo.head /\ Len(data.deletedStack) = 1
    /\ todo.taskCounter = 3 /\ todo.size = 1

=============================================================================
